---------------------------- MODULE Spec2Model ----------------------------
(***************************************************************************)
(* Model of the dated-file resolver and identifier normalizer of           *)
(* src/app.py (and its earlier copy src/14022026V3app.py).                 *)
(*                                                                         *)
(* A Python str is a sequence of one-character strings.  A Python value    *)
(* that may be None is a record [type, v]: PyStr(s), None, NaN, a date.    *)
(***************************************************************************)
EXTENDS Integers, Sequences, FiniteSets, TLC

VARIABLES
    raw, series, via, norm1, norm2, npc,         \* the normalizer under test
    fname, parsed, back, dpc,            \* extract_yyyymmdd under test
    files, target, chosen, cpc,          \* choose_file_for_date under test
    columns, wanted, found, fpc,         \* _find_col under test
    df_raw, df, q_raw, q_norm, results, message, spc,  \* a sheet, prepared and searched
    today, listing, lpc, idx, out, raising, ftp_log,   \* load_excels_via_ftp_three_days
    now, cache, mpc, refresh, data, dates_shown              \* the clock, the cache and a run of main

normVars == <<raw, series, via, norm1, norm2, npc>>
dateVars == <<fname, parsed, back, dpc>>
chooseVars == <<files, target, chosen, cpc>>
findVars == <<columns, wanted, found, fpc>>
sheetVars == <<df_raw, df, q_raw, q_norm, results, message, spc>>
loadVars == <<today, listing, lpc, idx, out, raising, ftp_log>>
mainVars == <<now, cache, mpc, refresh, data, dates_shown>>
vars == <<normVars, dateVars, chooseVars, findVars, sheetVars, loadVars, mainVars>>

\* what the actions of one part leave alone
notNorm == <<mainVars, loadVars, sheetVars, dateVars, chooseVars, findVars>>
notDate == <<mainVars, loadVars, sheetVars, normVars, chooseVars, findVars>>
notChoose == <<mainVars, loadVars, sheetVars, normVars, dateVars, findVars>>
notFind == <<mainVars, loadVars, sheetVars, normVars, dateVars, chooseVars>>
notSheet == <<mainVars, loadVars, normVars, dateVars, chooseVars, findVars>>
\* the load uses files, target and chosen, and df_raw and df, as its own
notLoad == <<normVars, dateVars, findVars, cpc, q_raw, q_norm, results, message, spc>>
\* a run of main uses the variables of the load as well
notMain == <<normVars, dateVars, findVars, cpc, q_raw, q_norm, results, message, spc>>

---------------------------------------------------------------------------
(* Python values *)

PyStr(s) == [type |-> "str", v |-> s]
None == [type |-> "NoneType", v |-> <<>>]
NaN == [type |-> "float", v |-> <<>>]

\* U+00A0, the non-breaking space, as one character
NBSP == "<U+00A0>"

\* str.isspace(): the characters str.strip() removes and \s matches
IsSpace(c) == c \in {" ", "\t", "\n", "\r", NBSP}

\* an int, and a float with a whole value (NaN is the float with none)
PyInt(n) == [type |-> "int", v |-> <<n>>]
PyFloat(n) == [type |-> "float", v |-> <<n>>]

AsciiDigit == <<"0", "1", "2", "3", "4", "5", "6", "7", "8", "9">>

\* a natural number in decimal
RECURSIVE Decimal(_)
Decimal(n) ==
    IF n < 10 THEN <<AsciiDigit[n + 1]>>
    ELSE Decimal(n \div 10) \o <<AsciiDigit[(n % 10) + 1]>>

\* str(x): a str is itself, None is 'None', a float NaN is 'nan', a whole
\* float ends in '.0'
str(x) ==
    CASE x.type = "str" -> x.v
      [] x.type = "NoneType" -> <<"N", "o", "n", "e">>
      [] x.type = "float" /\ x.v = <<>> -> <<"n", "a", "n">>
      [] x.type = "float" /\ x.v # <<>> -> Decimal(x.v[1]) \o <<".", "0">>
      [] x.type = "int" -> Decimal(x.v[1])

\* s.replace(old, new) for one-character old and new
replace(s, old, new) == [i \in 1..Len(s) |-> IF s[i] = old THEN new ELSE s[i]]

RECURSIVE lstrip(_)
lstrip(s) == IF s # <<>> /\ IsSpace(Head(s)) THEN lstrip(Tail(s)) ELSE s

RECURSIVE rstrip(_)
rstrip(s) ==
    IF s # <<>> /\ IsSpace(s[Len(s)]) THEN rstrip(SubSeq(s, 1, Len(s) - 1)) ELSE s

\* s.strip()
strip(s) == rstrip(lstrip(s))

\* The places where the pattern \.0$ matches in s: '.', '0', and then the
\* end of the string or a newline that ends the string.
Dot0EndMatches(s) ==
    {i \in 1..Len(s) - 1 :
        /\ s[i] = "."
        /\ s[i + 1] = "0"
        /\ \/ i + 1 = Len(s)
           \/ i + 2 = Len(s) /\ s[Len(s)] = "\n"}

\* re.sub(r"\.0$", "", s): every match is cut out (there is at most one)
re_sub_dot0_end(s) ==
    IF Dot0EndMatches(s) = {} THEN s
    ELSE LET i == CHOOSE k \in Dot0EndMatches(s) : TRUE
         IN  SubSeq(s, 1, i - 1) \o SubSeq(s, i + 2, Len(s))

\* A plausible slip: only the left side is stripped.
clean_query_lstrip(q) == re_sub_dot0_end(lstrip(replace(str(q), NBSP, " ")))

\* A plausible slip: the '.0' suffix is removed until none is left.
RECURSIVE re_sub_dot0_loop(_)
re_sub_dot0_loop(s) ==
    IF Dot0EndMatches(s) = {} THEN s ELSE re_sub_dot0_loop(re_sub_dot0_end(s))

clean_query_loop(q) == re_sub_dot0_loop(strip(replace(str(q), NBSP, " ")))

clean_query(q) == re_sub_dot0_end(strip(replace(str(q), NBSP, " ")))

\* One cell of clean_id_series: astype(str), str.replace, str.strip,
\* str.replace with the regular expression.
clean_id_cell(c) == re_sub_dot0_end(strip(replace(str(c), NBSP, " ")))

\* the dtype of a column: whole numbers only, numbers with a float or a
\* missing cell among them, or anything else
dtype(s) ==
    IF \A i \in 1..Len(s) : s[i].type = "int" THEN "int64"
    ELSE IF \A i \in 1..Len(s) : s[i].type \in {"int", "float"} THEN "float64"
    ELSE "object"

\* s.astype(str): in a float64 column a whole number is held as a float
astype_str(s) ==
    [i \in 1..Len(s) |->
        IF dtype(s) = "float64" /\ s[i].type = "int"
        THEN str(PyFloat(s[i].v[1]))
        ELSE str(s[i])]

\* A plausible slip: the cells keep their trailing '.0'.
clean_id_series_keeps_dot0(s) ==
    [i \in 1..Len(s) |-> strip(replace(astype_str(s)[i], NBSP, " "))]

\* clean_id_series(s): the cells of a column, each normalized
clean_id_series(s) ==
    [i \in 1..Len(s) |-> re_sub_dot0_end(strip(replace(astype_str(s)[i], NBSP, " ")))]

---------------------------------------------------------------------------
(* Inputs of the normalizer *)

MaxLen == 4

SeqsUpTo(S, n) == UNION {[1..k -> S] : k \in 0..n}

Range(s) == {s[i] : i \in 1..Len(s)}

IdChars == {"1", ".", "0", " ", NBSP, "A"}

\* the examples of the specification and longer shapes of the same cases
IdExamples ==
    { <<" ", " ", "1", "2", "3", "4", "5", ".", "0", " ", NBSP>>,
      <<"A", "B", "-", "1", "2">>,
      <<"1", "2", ".", "0", ".", "0">>,
      <<"1", "2", " ", ".", "0">>,
      <<"1", "2", ".", "0", "\n">>,
      <<"\t", "a", "b", ".", "0", "\r", "\n">> }

RawValues ==
    {PyStr(s) : s \in SeqsUpTo(IdChars, MaxLen) \cup IdExamples} \cup {None, NaN}

NormIdle ==
    /\ raw = PyStr(<<>>)
    /\ series = <<>>
    /\ via = "none"
    /\ norm1 = <<>>
    /\ norm2 = <<>>
    /\ npc = "idle"

DateIdle ==
    /\ fname = <<>>
    /\ parsed = None
    /\ back = <<>>
    /\ dpc = "idle"

ChooseIdle ==
    /\ files = <<>>
    /\ target = None
    /\ chosen = None
    /\ cpc = "idle"

FindIdle ==
    /\ columns = <<>>
    /\ wanted = <<>>
    /\ found = None
    /\ fpc = "idle"

SheetIdle ==
    /\ df_raw = None
    /\ df = None
    /\ q_raw = <<>>
    /\ q_norm = <<>>
    /\ results = <<>>
    /\ message = "none"
    /\ spc = "idle"

LoadIdle ==
    /\ today = None
    /\ listing = <<>>
    /\ lpc = "idle"
    /\ idx = 0
    /\ out = <<>>
    /\ raising = None
    /\ ftp_log = <<>>

MainIdle ==
    /\ now = [date |-> None, t |-> 0]
    /\ cache = None
    /\ mpc = "idle"
    /\ refresh = FALSE
    /\ data = <<>>
    /\ dates_shown = [on |-> None, dates |-> {}]

NormInit ==
    /\ raw \in RawValues
    /\ series = <<raw>>
    /\ via = "none"
    /\ norm1 = <<>>
    /\ norm2 = <<>>
    /\ npc = "input"
    /\ DateIdle
    /\ ChooseIdle
    /\ FindIdle
    /\ SheetIdle
    /\ LoadIdle
    /\ MainIdle

\* main: q_norm = clean_query(q)
QueryNormalize ==
    /\ npc = "input"
    /\ via' = "clean_query"
    /\ norm1' = clean_query(raw)
    /\ npc' = "once"
    /\ UNCHANGED <<raw, series, norm2, notNorm>>

\* _prepare_df: df[col] = clean_id_series(df[col]), for a column of one cell
CellNormalize ==
    /\ npc = "input"
    /\ via' = "clean_id_series"
    /\ norm1' = clean_id_series(series)[1]
    /\ npc' = "once"
    /\ UNCHANGED <<raw, series, norm2, notNorm>>

\* the normalizer applied to its own result
QueryNormalizeAgain ==
    /\ npc = "once"
    /\ via = "clean_query"
    /\ norm2' = clean_query(PyStr(norm1))
    /\ npc' = "twice"
    /\ UNCHANGED <<raw, series, via, norm1, notNorm>>

CellNormalizeAgain ==
    /\ npc = "once"
    /\ via = "clean_id_series"
    /\ norm2' = clean_id_series(<<PyStr(norm1)>>)[1]
    /\ npc' = "twice"
    /\ UNCHANGED <<raw, series, via, norm1, notNorm>>

NormNext ==
    \/ QueryNormalize
    \/ CellNormalize
    \/ QueryNormalizeAgain
    \/ CellNormalizeAgain

SpecNorm == NormInit /\ [][NormNext]_vars

---------------------------------------------------------------------------
(* Claims about the normalizer *)

EndsWithDot0(s) == Len(s) >= 2 /\ s[Len(s) - 1] = "." /\ s[Len(s)] = "0"

EndsWithSpace(s) == s # <<>> /\ IsSpace(s[Len(s)])

\* C3 (as stated): normalization is idempotent for every input: the second
\* application of clean_query, and of clean_id_series, returns what the
\* first one returned.
C3_Idempotent == npc = "twice" => norm2 = norm1

\* C3 (amended): a second application returns the first result exactly when
\* the first result neither ends in '.0' nor ends in whitespace; for
\* '12.0.0' and '12 .0' the second application changes the result.
C3_IdempotentUnlessSuffixLeft ==
    npc = "twice" =>
        (norm2 = norm1 <=> ~EndsWithDot0(norm1) /\ ~EndsWithSpace(norm1))

C3_Witness ==
    /\ npc = "twice"
    /\ raw = PyStr(<<"1", "2", ".", "0", ".", "0">>)
    /\ norm1 = <<"1", "2", ".", "0">>
    /\ norm2 = <<"1", "2">>

\* C4: a null raw value (None, or a missing cell) normalizes to the empty
\* string, by clean_query and by clean_id_series.
C4_NullGivesEmpty ==
    (npc \in {"once", "twice"} /\ raw \in {None, NaN}) => norm1 = <<>>

\* C5: the result is the input with every non-breaking space replaced by a
\* space, leading and trailing whitespace stripped, and then one trailing
\* '.0' removed: a value ending in '.0.0' keeps one '.0', and no character
\* changes case.
NbspAsSpace(x) == [i \in 1..Len(x) |-> IF x[i] = NBSP THEN " " ELSE x[i]]

\* t is x without its leading and trailing whitespace
IsStripped(t, x) ==
    \E i \in 1..Len(x) + 1 : \E j \in 0..Len(x) :
        /\ t = SubSeq(x, i, j)
        /\ \A k \in 1..Len(x) : (k < i \/ k > j) => IsSpace(x[k])
        /\ t # <<>> => ~IsSpace(t[1]) /\ ~IsSpace(t[Len(t)])

C5_StepsInOrder ==
    (npc \in {"once", "twice"} /\ raw.type = "str") =>
        \E t \in {SubSeq(NbspAsSpace(raw.v), i, j) :
                    i \in 1..Len(raw.v) + 1, j \in 0..Len(raw.v)} :
            /\ IsStripped(t, NbspAsSpace(raw.v))
            /\ EndsWithDot0(t) => norm1 = SubSeq(t, 1, Len(t) - 2)
            /\ ~EndsWithDot0(t) => norm1 = t
            /\ (EndsWithDot0(t) /\ EndsWithDot0(SubSeq(t, 1, Len(t) - 2)))
                   => EndsWithDot0(norm1)

C5_Witness ==
    /\ npc = "once"
    /\ raw = PyStr(<<NBSP, "A", ".", "0">>)
    /\ norm1 = <<"A">>

---------------------------------------------------------------------------
(* Dates *)

Date(y, m, d) == [type |-> "date", v |-> <<y, m, d>>]

\* an exception leaving a call, as the value the call yields
Raised(exc) == [type |-> exc, v |-> <<>>]

IsLeap(y) == y % 4 = 0 /\ (y % 100 # 0 \/ y % 400 = 0)

DaysInMonth(y, m) ==
    CASE m \in {1, 3, 5, 7, 8, 10, 12} -> 31
      [] m \in {4, 6, 9, 11} -> 30
      [] m = 2 -> IF IsLeap(y) THEN 29 ELSE 28

\* U+0660..U+0669, ARABIC-INDIC DIGIT ZERO..NINE: decimal digits that are
\* not ASCII
ArabicIndicDigit ==
    << "<U+0660>", "<U+0661>", "<U+0662>", "<U+0663>", "<U+0664>",
       "<U+0665>", "<U+0666>", "<U+0667>", "<U+0668>", "<U+0669>" >>

IsAsciiDigit(c) == \E n \in 1..10 : AsciiDigit[n] = c

\* what \d matches in a str pattern: every Unicode decimal digit
IsDigit(c) == \E n \in 1..10 : AsciiDigit[n] = c \/ ArabicIndicDigit[n] = c

DigitValue(c) ==
    (CHOOSE n \in 1..10 : AsciiDigit[n] = c \/ ArabicIndicDigit[n] = c) - 1

\* a character class [lo-hi] of ASCII digits
InClass(c, lo, hi) == IsAsciiDigit(c) /\ DigitValue(c) \in lo..hi

\* int(s) for a str of decimal digits
RECURSIVE int(_)
int(s) ==
    IF s = <<>> THEN 0
    ELSE 10 * int(SubSeq(s, 1, Len(s) - 1)) + DigitValue(s[Len(s)])

\* re.match(r"^(\d{8})", name): group 1, or None
re_match_8digits(name) ==
    IF Len(name) >= 8 /\ \A i \in 1..8 : IsDigit(name[i])
    THEN PyStr(SubSeq(name, 1, 8))
    ELSE None

\* _strptime's pattern for %m, (?P<m>1[0-2]|0[1-9]|[1-9]), at place i of s:
\* the lengths of the alternatives that match, in the order they are tried
MonthLens(s, i) ==
    (IF /\ i + 1 <= Len(s)
        /\ \/ s[i] = "1" /\ InClass(s[i + 1], 0, 2)
           \/ s[i] = "0" /\ InClass(s[i + 1], 1, 9)
     THEN <<2>> ELSE <<>>)
    \o (IF i <= Len(s) /\ InClass(s[i], 1, 9) THEN <<1>> ELSE <<>>)

\* _strptime's pattern for %d, (?P<d>3[0-1]|[1-2]\d|0[1-9]|[1-9]| [1-9])
DayLens(s, i) ==
    (IF /\ i + 1 <= Len(s)
        /\ \/ s[i] = "3" /\ InClass(s[i + 1], 0, 1)
           \/ InClass(s[i], 1, 2) /\ IsDigit(s[i + 1])
           \/ s[i] = "0" /\ InClass(s[i + 1], 1, 9)
     THEN <<2>> ELSE <<>>)
    \o (IF i <= Len(s) /\ InClass(s[i], 1, 9) THEN <<1>> ELSE <<>>)
    \o (IF i + 1 <= Len(s) /\ s[i] = " " /\ InClass(s[i + 1], 1, 9)
        THEN <<2>> ELSE <<>>)

\* the first way the pattern of "%Y%m%d" matches at the start of s:
\* <<length of the month, length of the day>>, or <<>> when it does not match
StrptimeMatch(s) ==
    IF ~(Len(s) >= 4 /\ \A i \in 1..4 : IsDigit(s[i])) THEN <<>>
    ELSE LET ms == MonthLens(s, 5)
             ok == {k \in 1..Len(ms) : DayLens(s, 5 + ms[k]) # <<>>}
         IN  IF ok = {} THEN <<>>
             ELSE LET k == CHOOSE a \in ok : \A b \in ok : a <= b
                  IN  <<ms[k], Head(DayLens(s, 5 + ms[k]))>>

\* datetime.strptime(s, "%Y%m%d").date(), or the ValueError it raises: no
\* match, unconverted data after the match, year 0, a day the month lacks
strptime_Ymd(s) ==
    LET mt == StrptimeMatch(s) IN
    IF mt = <<>> THEN Raised("ValueError")
    ELSE IF 4 + mt[1] + mt[2] # Len(s) THEN Raised("ValueError")
    ELSE LET y == int(SubSeq(s, 1, 4))
             m == int(SubSeq(s, 5, 4 + mt[1]))
             dd == SubSeq(s, 5 + mt[1], 4 + mt[1] + mt[2])
             d == int(IF Head(dd) = " " THEN Tail(dd) ELSE dd)
         IN  IF y < 1 \/ d > DaysInMonth(y, m)
             THEN Raised("ValueError")
             ELSE Date(y, m, d)

\* A plausible slip: the ValueError of strptime is not caught.
extract_yyyymmdd_uncaught(name) ==
    LET g == re_match_8digits(name) IN
    IF g = None THEN None ELSE strptime_Ymd(g.v)

extract_yyyymmdd(name) ==
    LET g == re_match_8digits(name) IN
    IF g = None THEN None
    ELSE LET r == strptime_Ymd(g.v)
         IN  IF r.type = "ValueError" THEN None ELSE r

\* n as k ASCII digits, zero-padded
RECURSIVE Digits(_, _)
Digits(n, k) ==
    IF k = 0 THEN <<>> ELSE Digits(n \div 10, k - 1) \o <<AsciiDigit[(n % 10) + 1]>>

\* a date written as YYYYMMDD
FormatYmd(dt) == Digits(dt.v[1], 4) \o Digits(dt.v[2], 2) \o Digits(dt.v[3], 2)

---------------------------------------------------------------------------
(* Inputs of extract_yyyymmdd *)

MaxMonth == 13
MaxDay == 32

Years == {0, 1900, 2000, 2023, 2024}
Days == {0, 1, 9, 10, 19} \cup 28..MaxDay

\* what follows the first 8 characters of a name
Suffixes ==
    { <<>>,
      <<"_", "a", ".", "x", "l", "s", "x">>,
      <<"9", ".", "x", "l", "s">> }

\* p with its k-th character replaced by the non-ASCII digit of the same
\* value, by a letter or by a space, or p cut before its k-th character
Variant(p, k, how) ==
    CASE k = 0 -> p
      [] k > 0 /\ how = "arabic" ->
            [p EXCEPT ![k] = ArabicIndicDigit[DigitValue(p[k]) + 1]]
      [] k > 0 /\ how = "letter" -> [p EXCEPT ![k] = "a"]
      [] k > 0 /\ how = "space" -> [p EXCEPT ![k] = " "]
      [] k > 0 /\ how = "cut" -> SubSeq(p, 1, k - 1)

DateNames ==
    {Variant(Digits(y, 4) \o Digits(m, 2) \o Digits(d, 2), k, how) \o suf :
        y \in Years, m \in 0..MaxMonth, d \in Days, k \in 0..8,
        how \in {"arabic", "letter", "space", "cut"}, suf \in Suffixes}

DateInit ==
    /\ fname \in DateNames
    /\ parsed = None
    /\ back = <<>>
    /\ dpc = "input"
    /\ NormIdle
    /\ ChooseIdle
    /\ FindIdle
    /\ SheetIdle
    /\ LoadIdle
    /\ MainIdle

ExtractDate ==
    /\ dpc = "input"
    /\ parsed' = extract_yyyymmdd(fname)
    /\ dpc' = "parsed"
    /\ UNCHANGED <<fname, back, notDate>>

\* the date that was found, written as YYYYMMDD again
FormatBack ==
    /\ dpc = "parsed"
    /\ parsed.type = "date"
    /\ back' = FormatYmd(parsed)
    /\ dpc' = "formatted"
    /\ UNCHANGED <<fname, parsed, notDate>>

DateNext ==
    \/ ExtractDate
    \/ FormatBack

SpecDate == DateInit /\ [][DateNext]_vars

---------------------------------------------------------------------------
(* Claims about extract_yyyymmdd *)

\* a decimal digit: a character of Unicode's category Nd, ASCII or not
DecimalDigits ==
    {AsciiDigit[n] : n \in 1..10} \cup {ArabicIndicDigit[n] : n \in 1..10}

First8(s) == SubSeq(s, 1, IF Len(s) < 8 THEN Len(s) ELSE 8)

StartsWith8Digits(s) == Len(s) >= 8 /\ \A i \in 1..8 : s[i] \in DecimalDigits

\* the 8 digits p name a day of the calendar
IsCalendarDate(p) ==
    LET y == int(SubSeq(p, 1, 4))
        m == int(SubSeq(p, 5, 6))
        d == int(SubSeq(p, 7, 8))
    IN  y >= 1 /\ m \in 1..12 /\ d >= 1 /\ d <= DaysInMonth(y, m)

\* C6: extract_yyyymmdd never raises; it returns None when the name does
\* not start with 8 decimal digits or when these are not a calendar date;
\* and a name with the same first 8 characters gets the same result.
C6_NoDateNeverRaises ==
    dpc \in {"parsed", "formatted"} =>
        /\ parsed.type \in {"date", "NoneType"}
        /\ (~StartsWith8Digits(fname) \/ ~IsCalendarDate(First8(fname)))
               => parsed = None
        /\ Len(fname) >= 8 =>
               \A suf \in Suffixes : extract_yyyymmdd(First8(fname) \o suf) = parsed

\* a name of 8 digits that are no calendar date (30 February) has been
\* given, and one of fewer than 8 digits
C6_Witness ==
    /\ dpc = "parsed"
    /\ fname = <<"2", "0", "2", "4", "0", "2", "3", "0", "_", "a", ".", "x", "l", "s", "x">>
    /\ parsed = None

\* C7: when extract_yyyymmdd returns a date, that date written as YYYYMMDD
\* is the first 8 characters of the name.
C7_RoundTrip == dpc = "formatted" => back = First8(fname)

---------------------------------------------------------------------------
(* Strings: case, suffixes and order *)

UpperCase ==
    << "A", "B", "C", "D", "E", "F", "G", "H", "I", "J", "K", "L", "M",
       "N", "O", "P", "Q", "R", "S", "T", "U", "V", "W", "X", "Y", "Z" >>

LowerCase ==
    << "a", "b", "c", "d", "e", "f", "g", "h", "i", "j", "k", "l", "m",
       "n", "o", "p", "q", "r", "s", "t", "u", "v", "w", "x", "y", "z" >>

\* the characters U+0020..U+007E in code-point order (the quotes, the
\* backslash and the grave accent by their code points)
Printable ==
    << " ", "!", "<U+0022>", "#", "$", "%", "&", "<U+0027>", "(", ")", "*", "+", ",",
       "-", ".", "/" >> \o AsciiDigit \o
    << ":", ";", "<", "=", ">", "?", "@" >> \o UpperCase \o
    << "[", "<U+005C>", "]", "^", "_", "<U+0060>" >> \o LowerCase \o
    << "{", "|", "}", "~" >>

\* ord(c), the code point of a character
ord(c) ==
    CASE c = "\t" -> 9
      [] c = "\n" -> 10
      [] c = "\r" -> 13
      [] c = NBSP -> 160
      [] c \in Range(ArabicIndicDigit) ->
            1631 + (CHOOSE n \in 1..10 : ArabicIndicDigit[n] = c)
      [] OTHER -> 31 + (CHOOSE n \in 1..Len(Printable) : Printable[n] = c)

\* s.lower()
lower(s) ==
    [i \in 1..Len(s) |->
        IF \E n \in 1..26 : UpperCase[n] = s[i]
        THEN LowerCase[CHOOSE n \in 1..26 : UpperCase[n] = s[i]]
        ELSE s[i]]

\* s.endswith(suffix)
endswith(s, suffix) ==
    /\ Len(s) >= Len(suffix)
    /\ SubSeq(s, Len(s) - Len(suffix) + 1, Len(s)) = suffix

\* a < b for two str: the code points at the first place where they differ,
\* or a is a proper prefix of b
RECURSIVE str_lt(_, _)
str_lt(a, b) ==
    IF b = <<>> THEN FALSE
    ELSE IF a = <<>> THEN TRUE
    ELSE IF Head(a) # Head(b) THEN ord(Head(a)) < ord(Head(b))
    ELSE str_lt(Tail(a), Tail(b))

\* x put into the sorted list l, after the elements that are not greater
RECURSIVE insort(_, _)
insort(l, x) ==
    IF l = <<>> THEN <<x>>
    ELSE IF str_lt(x, Head(l)) THEN <<x>> \o l
    ELSE <<Head(l)>> \o insort(Tail(l), x)

\* sorted(l) for a list of str
RECURSIVE sorted(_)
sorted(l) ==
    IF l = <<>> THEN <<>> ELSE insort(sorted(SubSeq(l, 1, Len(l) - 1)), l[Len(l)])

ExcelSuffixes ==
    { <<".", "x", "l", "s", "x">>, <<".", "x", "l", "s", "m">>, <<".", "x", "l", "s">> }

\* the loop of choose_file_for_date: the files that are kept, in list order
RECURSIVE candidates_of(_, _)
candidates_of(fs, tgt) ==
    IF fs = <<>> THEN <<>>
    ELSE LET f == Head(fs)
             rest == candidates_of(Tail(fs), tgt)
         IN  IF ~\E suf \in ExcelSuffixes : endswith(lower(f), suf) THEN rest
             ELSE IF extract_yyyymmdd(f) = tgt THEN <<f>> \o rest
             ELSE rest

\* A plausible slip: the first candidate of the list is taken, unsorted.
choose_file_unsorted(fs, tgt) ==
    LET candidates == candidates_of(fs, tgt)
    IN  IF candidates = <<>> THEN None ELSE PyStr(candidates[1])

\* the date a is not after the date b
DateLE(a, b) ==
    \/ a.v[1] < b.v[1]
    \/ a.v[1] = b.v[1] /\ a.v[2] < b.v[2]
    \/ a.v[1] = b.v[1] /\ a.v[2] = b.v[2] /\ a.v[3] <= b.v[3]

\* A plausible variant: without a file of the target date, the last file of
\* the latest date before it is taken.
choose_file_most_recent(fs, tgt) ==
    LET exact == candidates_of(fs, tgt)
        earlier == {f \in Range(fs) :
                      /\ \E suf \in ExcelSuffixes : endswith(lower(f), suf)
                      /\ extract_yyyymmdd(f) # None
                      /\ DateLE(extract_yyyymmdd(f), tgt)}
        latest == {f \in earlier :
                     \A g \in earlier : DateLE(extract_yyyymmdd(g), extract_yyyymmdd(f))}
    IN  IF exact # <<>> THEN PyStr(sorted(exact)[Len(exact)])
        ELSE IF earlier = {} THEN None
        ELSE PyStr(CHOOSE f \in latest : \A g \in latest : g = f \/ str_lt(g, f))

choose_file_for_date(fs, tgt) ==
    LET candidates == candidates_of(fs, tgt)
    IN  IF candidates = <<>> THEN None
        ELSE PyStr(sorted(candidates)[Len(candidates)])

---------------------------------------------------------------------------
(* Inputs of choose_file_for_date *)

MaxFiles == 3

\* names a listing of the FTP directory may hold
FilePool ==
    {
      <<"2", "0", "2", "6", "0", "2", "1", "4", "_", "a", ".", "x", "l", "s", "x">>,  \* 20260214_a.xlsx
      <<"2", "0", "2", "6", "0", "2", "1", "4", "_", "b", ".", "x", "l", "s", "x">>,  \* 20260214_b.xlsx
      <<"2", "0", "2", "6", "0", "2", "1", "4", "_", "B", ".", "X", "L", "S", "X">>,  \* 20260214_B.XLSX
      <<"2", "0", "2", "6", "0", "2", "1", "4", ".", "x", "l", "s">>,  \* 20260214.xls
      <<"2", "0", "2", "6", "0", "2", "1", "5", "_", "c", ".", "x", "l", "s", "x">>,  \* 20260215_c.xlsx
      <<"2", "0", "2", "6", "0", "2", "1", "4", "_", "z", ".", "c", "s", "v">>,  \* 20260214_z.csv
      <<"2", "0", "2", "6", "0", "2", "1", "_", "z", ".", "x", "l", "s", "m">>,  \* 2026021_z.xlsm
      <<"<U+0662>", "0", "2", "6", "0", "2", "1", "4", "_", "a", ".", "x", "l", "s", "x">> }  \* <U+0662>0260214_a.xlsx

Targets == {Date(2026, 2, d) : d \in 14..16}

ChooseInit ==
    /\ files \in SeqsUpTo(FilePool, MaxFiles)
    /\ target \in Targets
    /\ chosen = None
    /\ cpc = "input"
    /\ NormIdle
    /\ DateIdle
    /\ FindIdle
    /\ SheetIdle
    /\ LoadIdle
    /\ MainIdle

ChooseFile ==
    /\ cpc = "input"
    /\ chosen' = choose_file_for_date(files, target)
    /\ cpc' = "chosen"
    /\ UNCHANGED <<files, target, notChoose>>

ChooseNext == ChooseFile

SpecChoose == ChooseInit /\ [][ChooseNext]_vars

---------------------------------------------------------------------------
(* Claims about choose_file_for_date *)

\* f ends, whatever the case of its letters, in .xlsx, .xlsm or .xls
HasExcelExtension(f) ==
    \E suf \in ExcelSuffixes :
        /\ Len(f) >= Len(suf)
        /\ \A k \in 1..Len(suf) : lower(<<f[Len(f) - Len(suf) + k]>>) = <<suf[k]>>

\* a comes before b in code-point order
LexLess(a, b) ==
    \E k \in 1..Len(b) :
        /\ \A i \in 1..k - 1 : i <= Len(a) /\ a[i] = b[i]
        /\ \/ Len(a) = k - 1
           \/ Len(a) >= k /\ ord(a[k]) < ord(b[k])

\* the names of the list that have the extension and the date
Eligible(fs, tgt) ==
    {fs[i] : i \in {k \in 1..Len(fs) :
                      HasExcelExtension(fs[k]) /\ extract_yyyymmdd(fs[k]) = tgt}}

\* fs with its i-th and (i+1)-th names swapped
Swapped(fs, i) == [fs EXCEPT ![i] = fs[i + 1], ![i + 1] = fs[i]]

\* C1: choose_file_for_date returns the greatest name, in code-point order,
\* among the names of the list that end in .xlsx, .xlsm or .xls (in any
\* case) and whose first 8 characters parse to the target date; None exactly
\* when there is none; and the same for every order of the list (swapping
\* two neighbours changes nothing: every reordering is a chain of such
\* swaps, and the lists that are checked hold every order of their names).
C1_GreatestEligible ==
    cpc = "chosen" =>
        LET el == Eligible(files, target) IN
        /\ chosen = None <=> el = {}
        /\ chosen # None =>
              /\ chosen.v \in el
              /\ \A g \in el : g = chosen.v \/ LexLess(g, chosen.v)
        /\ \A i \in 1..Len(files) - 1 :
              choose_file_for_date(Swapped(files, i), target) = chosen

\* three names of the target date, the greatest of them first in the list
C1_Witness ==
    /\ cpc = "chosen"
    /\ target = Date(2026, 2, 14)
    /\ files = << <<"2", "0", "2", "6", "0", "2", "1", "4", "_", "b", ".", "x", "l", "s", "x">>,
                  <<"2", "0", "2", "6", "0", "2", "1", "4", "_", "B", ".", "X", "L", "S", "X">>,
                  <<"2", "0", "2", "6", "0", "2", "1", "4", "_", "a", ".", "x", "l", "s", "x">> >>
    /\ chosen = PyStr(<<"2", "0", "2", "6", "0", "2", "1", "4", "_", "b", ".", "x", "l", "s", "x">>)

---------------------------------------------------------------------------
(* Column names *)

\* re.sub(r"\s+", "", s): every run of whitespace is cut out
RECURSIVE re_sub_spaces(_)
re_sub_spaces(s) ==
    IF s = <<>> THEN <<>>
    ELSE IF IsSpace(Head(s)) THEN re_sub_spaces(Tail(s))
    ELSE <<Head(s)>> \o re_sub_spaces(Tail(s))

\* A plausible slip: the case is kept.
norm_keeps_case(s) == strip(re_sub_spaces(str(s)))

_norm(s) == lower(strip(re_sub_spaces(str(s))))

\* the loop of _find_col over the headers cols, for the normalized name w
RECURSIVE find_in(_, _)
find_in(cols, w) ==
    IF cols = <<>> THEN None
    ELSE IF _norm(Head(cols)) = w THEN Head(cols)
    ELSE find_in(Tail(cols), w)

\* A plausible slip: the last header that matches is returned.
RECURSIVE find_last_in(_, _)
find_last_in(cols, w) ==
    IF cols = <<>> THEN None
    ELSE IF _norm(cols[Len(cols)]) = w THEN cols[Len(cols)]
    ELSE find_last_in(SubSeq(cols, 1, Len(cols) - 1), w)

find_col_last(cols, w) == find_last_in(cols, _norm(PyStr(w)))

\* _find_col(df, wanted), for the headers df.columns
_find_col(cols, w) == find_in(cols, _norm(PyStr(w)))

---------------------------------------------------------------------------
(* Inputs of _find_col *)

MaxCols == 3

HeaderPool ==
    { PyStr(<<"u", "u", "r">>), PyStr(<<"U", "u", "r">>), PyStr(<<" ", "U", " ", "u", "r", "\t">>), PyStr(<<"U", "U", "R", NBSP>>),
      PyStr(<<"u", "u", "r", "x">>), PyStr(<<"n", "a", "a", "m">>), PyStr(<<"N", "a", " ", "a", "m">>), PyStr(<<>>) }

WantedPool == { <<"u", "u", "r">>, <<"n", "a", "a", "m">>, <<"N", "a", "a", "m", " ">>, <<"l", "o", "o", "p">> }

FindInit ==
    /\ columns \in SeqsUpTo(HeaderPool, MaxCols)
    /\ wanted \in WantedPool
    /\ found = None
    /\ fpc = "input"
    /\ NormIdle
    /\ DateIdle
    /\ ChooseIdle
    /\ SheetIdle
    /\ LoadIdle
    /\ MainIdle

FindCol ==
    /\ fpc = "input"
    /\ found' = _find_col(columns, wanted)
    /\ fpc' = "found"
    /\ UNCHANGED <<columns, wanted, notFind>>

FindNext == FindCol

SpecFind == FindInit /\ [][FindNext]_vars

---------------------------------------------------------------------------
(* Claims about _find_col *)

\* s without its whitespace and with its letters in lower case
Squashed(s) == lower(SelectSeq(s, LAMBDA c : ~IsSpace(c)))

\* C8: _find_col returns the first header, in header order, that equals the
\* desired name once whitespace is removed and case is folded in both, and
\* None when no header does; of two headers with the same normalized form
\* the earlier one is returned.
C8_FirstMatch ==
    fpc = "found" =>
        LET hits == {i \in 1..Len(columns) :
                        Squashed(columns[i].v) = Squashed(wanted)}
        IN  /\ hits = {} => found = None
            /\ hits # {} =>
                  found = columns[CHOOSE i \in hits : \A j \in hits : i <= j]

\* two headers with the same normalized form, the later one spelled exactly
C8_Witness ==
    /\ fpc = "found"
    /\ wanted = <<"u", "u", "r">>
    /\ columns = <<PyStr(<<"n", "a", "a", "m">>), PyStr(<<" ", "U", " ", "u", "r", "\t">>), PyStr(<<"u", "u", "r">>)>>
    /\ found = PyStr(<<" ", "U", " ", "u", "r", "\t">>)

---------------------------------------------------------------------------
(* A sheet: the headers, and the rows as lists of cells in header order *)

DataFrame(cols, rows, index) ==
    [type |-> "DataFrame", v |-> [columns |-> cols, rows |-> rows, index |-> index]]

\* an exception that carries a list
RaisedWith(exc, info) == [type |-> exc, v |-> info]

\* wanted_cols of _prepare_df: the name looked for, and the name given
wanted_cols ==
    << <<<<"p", "e", "r", "s", "o", "n", "e", "e", "l", "n", "u", "m", "m", "e", "r">>, <<"p", "e", "r", "s", "o", "n", "e", "e", "l", "n", "u", "m", "m", "e", "r">>>>,
       <<<<"d", "i", "e", "n", "s", "t", "a", "d", "r", "e", "s">>, <<"D", "i", "e", "n", "s", "t", "a", "d", "r", "e", "s">>>>,
       <<<<"u", "u", "r">>, <<"u", "u", "r">>>>,
       <<<<"p", "l", "a", "a", "t", "s">>, <<"p", "l", "a", "a", "t", "s">>>>,
       <<<<"r", "i", "c", "h", "t", "i", "n", "g">>, <<"r", "i", "c", "h", "t", "i", "n", "g">>>>,
       <<<<"l", "o", "o", "p">>, <<"L", "o", "o", "p">>>>,
       <<<<"n", "a", "a", "m">>, <<"n", "a", "a", "m">>>>,
       <<<<"v", "o", "e", "r", "t", "u", "i", "g">>, <<"v", "o", "e", "r", "t", "u", "i", "g">>>>,
       <<<<"w", "i", "s", "s", "e", "l">>, <<"v", "o", "e", "r", "t", "u", "i", "g", "w", "i", "s", "s", "e", "l">>>> >>

\* d[key] = value for a dict kept as its list of <<key, value>> items
DictSet(d, key, value) ==
    IF \E i \in 1..Len(d) : d[i][1] = key
    THEN [i \in 1..Len(d) |-> IF d[i][1] = key THEN <<key, value>> ELSE d[i]]
    ELSE Append(d, <<key, value>>)

\* the first loop of _prepare_df, from the k-th wanted column on
RECURSIVE resolve_from(_, _, _, _)
resolve_from(cols, k, col_map, missing) ==
    IF k > Len(wanted_cols) THEN [col_map |-> col_map, missing |-> missing]
    ELSE LET hit == _find_col(cols, wanted_cols[k][1])
         IN  IF hit = None \/ hit = PyStr(<<>>)
             THEN resolve_from(cols, k + 1, col_map, Append(missing, wanted_cols[k][1]))
             ELSE resolve_from(cols, k + 1,
                               DictSet(col_map, hit, wanted_cols[k][2]), missing)

\* the places of the headers that are keys of col_map, key after key
RECURSIVE places_of(_, _)
places_of(cols, keys) ==
    IF keys = <<>> THEN <<>>
    ELSE SelectSeq([i \in 1..Len(cols) |-> i], LAMBDA i : cols[i] = Head(keys))
         \o places_of(cols, Tail(keys))

\* df_raw[list(col_map.keys())].rename(columns=col_map)
select_rename(raw_df, col_map) ==
    LET keys == [i \in 1..Len(col_map) |-> col_map[i][1]]
        at == places_of(raw_df.v.columns, keys)
        renamed(h) == (CHOOSE i \in 1..Len(col_map) : col_map[i][1] = h)
    IN  DataFrame([k \in 1..Len(at) |-> col_map[renamed(raw_df.v.columns[at[k]])][2]],
                  [r \in 1..Len(raw_df.v.rows) |->
                      [k \in 1..Len(at) |-> raw_df.v.rows[r][at[k]]]],
                  <<>>)

ColumnAt(frame, col) == CHOOSE k \in 1..Len(frame.v.columns) : frame.v.columns[k] = col

\* df[col] = clean_id_series(df[col])
clean_column(frame, col) ==
    LET k == ColumnAt(frame, col)
        cleaned == clean_id_series([r \in 1..Len(frame.v.rows) |-> frame.v.rows[r][k]])
    IN  DataFrame(frame.v.columns,
                  [r \in 1..Len(frame.v.rows) |->
                      [frame.v.rows[r] EXCEPT ![k] = PyStr(cleaned[r])]],
                  frame.v.index)

IsNull(c) == c = None \/ c = NaN

\* the cells of a column can be ordered: numbers with numbers, str with str
Sortable(cells) ==
    \/ \A i \in 1..Len(cells) : IsNull(cells[i]) \/ cells[i].type \in {"int", "float"}
    \/ \A i \in 1..Len(cells) : IsNull(cells[i]) \/ cells[i].type = "str"

\* a < b for two cells of a sortable column; a null comes last
cell_lt(a, b) ==
    IF IsNull(a) THEN FALSE
    ELSE IF IsNull(b) THEN TRUE
    ELSE IF a.type = "str" THEN str_lt(a.v, b.v)
    ELSE a.v[1] < b.v[1]

\* row x put into the rows l sorted by their k-th cell, after its equals
RECURSIVE insert_row(_, _, _)
insert_row(l, x, k) ==
    IF l = <<>> THEN <<x>>
    ELSE IF cell_lt(x[k], Head(l)[k]) THEN <<x>> \o l
    ELSE <<Head(l)>> \o insert_row(Tail(l), x, k)

RECURSIVE rows_sorted(_, _)
rows_sorted(rows, k) ==
    IF rows = <<>> THEN <<>>
    ELSE insert_row(rows_sorted(SubSeq(rows, 1, Len(rows) - 1), k), rows[Len(rows)], k)

\* try: df = df.sort_values("uur") / except Exception: pass
sort_by_uur(frame) ==
    LET k == ColumnAt(frame, <<"u", "u", "r">>)
    IN  IF Sortable([r \in 1..Len(frame.v.rows) |-> frame.v.rows[r][k]])
        THEN DataFrame(frame.v.columns, rows_sorted(frame.v.rows, k), frame.v.index)
        ELSE frame

\* df.set_index("personeelnummer", drop=False)
set_index(frame, col) ==
    LET k == ColumnAt(frame, col)
    IN  DataFrame(frame.v.columns, frame.v.rows,
                  [r \in 1..Len(frame.v.rows) |-> frame.v.rows[r][k].v])

\* what _prepare_df does once no column is missing
prepared(raw_df, col_map) ==
    set_index(
        sort_by_uur(
            clean_column(
                clean_column(
                    clean_column(select_rename(raw_df, col_map), <<"p", "e", "r", "s", "o", "n", "e", "e", "l", "n", "u", "m", "m", "e", "r">>),
                    <<"v", "o", "e", "r", "t", "u", "i", "g">>),
                <<"v", "o", "e", "r", "t", "u", "i", "g", "w", "i", "s", "s", "e", "l">>)),
        <<"p", "e", "r", "s", "o", "n", "e", "e", "l", "n", "u", "m", "m", "e", "r">>)

\* A plausible slip: the error is raised at the first column that is missing.
prepare_df_first_missing(raw_df) ==
    LET res == resolve_from(raw_df.v.columns, 1, <<>>, <<>>)
    IN  IF res.missing # <<>> THEN RaisedWith("RuntimeError", <<res.missing[1]>>)
        ELSE prepared(raw_df, res.col_map)

\* _prepare_df(df_raw): the frame, or the RuntimeError with the missing names
_prepare_df(raw_df) ==
    LET res == resolve_from(raw_df.v.columns, 1, <<>>, <<>>)
    IN  IF res.missing # <<>> THEN RaisedWith("RuntimeError", res.missing)
        ELSE prepared(raw_df, res.col_map)

---------------------------------------------------------------------------
(* Inputs of _prepare_df: sheets whose headers vary *)

\* s.upper()
upper(s) ==
    [i \in 1..Len(s) |->
        IF \E n \in 1..26 : LowerCase[n] = s[i]
        THEN UpperCase[CHOOSE n \in 1..26 : LowerCase[n] = s[i]]
        ELSE s[i]]

\* a header as a sheet may spell it
Spelled(s, style) ==
    CASE style = "exact" -> s
      [] style = "upper" -> upper(s) \o <<NBSP>>
      [] style = "spaced" -> <<" ">> \o upper(<<Head(s)>>) \o <<" ">> \o Tail(s)

\* headers that none of the wanted names matches
OtherHeaders == <<PyStr(<<"v", "o", "e", "r", "t", "u", "i", "g", "w", "i", "s", "s", "e", "l">>), PyStr(<<"d", "a", "t", "u", "m">>)>>

Reverse(s) == [i \in 1..Len(s) |-> s[Len(s) + 1 - i]]

\* the sheet with the wanted columns of the set present, spelled in a style,
\* after the other headers if any, in this order or the reverse; one row
HeaderSheet(present, style, others, reversed) ==
    LET ks == SelectSeq([i \in 1..Len(wanted_cols) |-> i], LAMBDA i : i \in present)
        hs == others \o [i \in 1..Len(ks) |-> PyStr(Spelled(wanted_cols[ks[i]][1], style))]
        cols == IF reversed THEN Reverse(hs) ELSE hs
    IN  DataFrame(cols, <<[k \in 1..Len(cols) |-> PyFloat(7)]>>, <<>>)

HeaderSheets ==
    {HeaderSheet(present, style, others, reversed) :
        present \in SUBSET (1..Len(wanted_cols)),
        style \in {"exact", "upper", "spaced"},
        others \in {<<>>, OtherHeaders},
        reversed \in BOOLEAN}

PrepareInit ==
    /\ df_raw \in HeaderSheets
    /\ df = None
    /\ q_raw = <<>>
    /\ q_norm = <<>>
    /\ results = <<>>
    /\ message = "none"
    /\ spc = "read"
    /\ NormIdle
    /\ DateIdle
    /\ ChooseIdle
    /\ FindIdle
    /\ LoadIdle
    /\ MainIdle

\* load_excels_via_ftp_three_days: df = _prepare_df(df_raw)
PrepareSheet ==
    /\ spc = "read"
    /\ df_raw # None
    /\ df' = _prepare_df(df_raw)
    /\ spc' = "prepared"
    /\ UNCHANGED <<df_raw, q_raw, q_norm, results, message, notSheet>>

PrepareNext == PrepareSheet

SpecPrepare == PrepareInit /\ [][PrepareNext]_vars

---------------------------------------------------------------------------
(* Claims about _prepare_df *)

\* the wanted columns that no header of the sheet matches once whitespace
\* is removed and case is folded
Unresolved(raw_df) ==
    {k \in 1..Len(wanted_cols) :
        ~\E i \in 1..Len(raw_df.v.columns) :
            Squashed(raw_df.v.columns[i].v) = Squashed(wanted_cols[k][1])}

\* C9: _prepare_df raises exactly when a required column cannot be resolved
\* against the headers; the error names every missing column; and when all
\* resolve the result has exactly the nine renamed columns.
C9_MissingColumns ==
    spc = "prepared" =>
        LET un == Unresolved(df_raw) IN
        /\ df.type = "RuntimeError" <=> un # {}
        /\ df.type = "RuntimeError" =>
              /\ Range(df.v) = {wanted_cols[k][1] : k \in un}
              /\ Len(df.v) = Cardinality(un)
        /\ un = {} =>
              /\ df.type = "DataFrame"
              /\ Len(df.v.columns) = Len(wanted_cols)
              /\ Range(df.v.columns) = {wanted_cols[k][2] : k \in 1..Len(wanted_cols)}

\* a sheet that lacks two of the columns: the error names both
C9_Witness ==
    /\ spc = "prepared"
    /\ Unresolved(df_raw) = {3, 9}
    /\ df = RaisedWith("RuntimeError", <<<<"u", "u", "r">>, <<"w", "i", "s", "s", "e", "l">>>>)

---------------------------------------------------------------------------
(* The search *)

\* sub occurs in s
Contains(sub, s) ==
    \E i \in 1..Len(s) - Len(sub) + 1 : SubSeq(s, i, i + Len(sub) - 1) = sub

\* df.loc[keys]: the rows of the frame whose index entry is one of the keys,
\* in the order of the frame
loc(frame, keys) ==
    LET at == SelectSeq([r \in 1..Len(frame.v.rows) |-> r],
                        LAMBDA r : frame.v.index[r] \in keys)
    IN  [k \in 1..Len(at) |-> frame.v.rows[at[k]]]

Rendered(msg, rows) == [message |-> msg, results |-> rows]

\* A plausible slip: the search of the vehicle codes, a case-insensitive
\* substring match, is used for the personnel number.
render_section_contains(frame, personeelnummer_query) ==
    IF frame = None THEN Rendered("Geen bestand gevonden", <<>>)
    ELSE LET hits == loc(frame, {pn \in Range(frame.v.index) :
                                    Contains(lower(personeelnummer_query), lower(pn))})
         IN  IF hits = <<>> THEN Rendered("Geen rijen gevonden", <<>>)
             ELSE Rendered("Gevonden", hits)

\* render_section(label, payload, personeelnummer_query), for the df of the
\* payload: what is shown
render_section(frame, personeelnummer_query) ==
    IF frame = None THEN Rendered("Geen bestand gevonden", <<>>)
    ELSE LET hits == loc(frame, {personeelnummer_query})
         IN  IF hits = <<>> THEN Rendered("Geen rijen gevonden", <<>>)
             ELSE Rendered("Gevonden", hits)

---------------------------------------------------------------------------
(* Inputs of the search: sheets whose rows vary, and queries *)

MaxRows == 2

PnColumn == 1
UurColumn == 3
NaamColumn == 7

ExactHeaders == [k \in 1..Len(wanted_cols) |-> PyStr(wanted_cols[k][1])]

\* the personeelnummer cell and the uur cell of a row
CellPool ==
    { <<PyStr(<<"6", "3", "1", "0">>), PyInt(7)>>,
      <<PyStr(<<"B", "U", "S", "-", "6", "3", "1", "0">>), PyInt(5)>>,
      <<PyStr(<<"b", "u", "s", "-", "6", "3", "1", "0">>), PyInt(7)>>,
      <<PyFloat(6310), PyInt(5)>>,
      <<NaN, PyInt(7)>>,
      <<PyStr(<<" ", "6", "3", "1", "0", NBSP>>), PyStr(<<"x">>)>>,
      <<PyInt(631), NaN>> }

\* the sheet with one row per pair of cells; the naam cell numbers the row
SearchSheet(cells) ==
    DataFrame(ExactHeaders,
              [r \in 1..Len(cells) |->
                  [k \in 1..Len(wanted_cols) |->
                      CASE k = PnColumn -> cells[r][1]
                        [] k = UurColumn -> cells[r][2]
                        [] k = NaamColumn -> PyInt(r)
                        [] OTHER -> PyFloat(7)]],
              <<>>)

\* a sheet without the column 'wissel'
SheetWithoutWissel ==
    DataFrame(SubSeq(ExactHeaders, 1, 8), <<[k \in 1..8 |-> PyFloat(7)]>>, <<>>)

QueryPool ==
    { <<"6", "3", "1", "0">>, <<"B", "U", "S", "-", "6", "3", "1", "0">>, <<"B", "u", "s", "-", "6", "3", "1", "0">>, <<"6", "3", "1", "0", ".", "0">>, <<" ", "6", "3", "1", "0", NBSP, " ">>,
      <<"6", "3", "1">>, <<"3", "1", "0">>, <<"n", "a", "n">>, <<" ", NBSP>>, <<>> }

SearchInit ==
    /\ df_raw \in {SearchSheet(cells) : cells \in SeqsUpTo(CellPool, MaxRows)}
                    \cup {SheetWithoutWissel, None}
    /\ df = None
    /\ q_raw \in QueryPool
    /\ q_norm = <<>>
    /\ results = <<>>
    /\ message = "none"
    /\ spc = "read"
    /\ NormIdle
    /\ DateIdle
    /\ ChooseIdle
    /\ FindIdle
    /\ LoadIdle
    /\ MainIdle

\* load_excels_via_ftp_three_days: no file for the day, df is None
AbsentSheet ==
    /\ spc = "read"
    /\ df_raw = None
    /\ df' = None
    /\ spc' = "prepared"
    /\ UNCHANGED <<df_raw, q_raw, q_norm, results, message, notSheet>>

\* main: the load raised; the error is shown and nothing is searched
MainError ==
    /\ spc = "prepared"
    /\ df.type = "RuntimeError"
    /\ message' = "FTP inlezen mislukt"
    /\ spc' = "failed"
    /\ UNCHANGED <<df_raw, df, q_raw, q_norm, results, notSheet>>

\* main: if not q.strip(): st.info(...); st.stop()
MainStop ==
    /\ spc = "prepared"
    /\ df.type # "RuntimeError"
    /\ strip(q_raw) = <<>>
    /\ message' = "Geef een personeelnummer in"
    /\ spc' = "stopped"
    /\ UNCHANGED <<df_raw, df, q_raw, q_norm, results, notSheet>>

\* main: q_norm = clean_query(q); render_section(day, data[day], q_norm)
MainSearch ==
    /\ spc = "prepared"
    /\ df.type # "RuntimeError"
    /\ strip(q_raw) # <<>>
    /\ q_norm' = clean_query(PyStr(q_raw))
    /\ LET shown == render_section(df, clean_query(PyStr(q_raw)))
       IN  /\ results' = shown.results
           /\ message' = shown.message
    /\ spc' = "rendered"
    /\ UNCHANGED <<df_raw, df, q_raw, notSheet>>

SearchNext ==
    \/ PrepareSheet
    \/ AbsentSheet
    \/ MainError
    \/ MainStop
    \/ MainSearch

SpecSearch == SearchInit /\ [][SearchNext]_vars

---------------------------------------------------------------------------
(* Claims about the search *)

\* the r-th row of the sheet is among the rows shown
Shown(r) == \E k \in 1..Len(results) : results[k][NaamColumn] = PyInt(r)

\* C10: render_section shows a row if and only if the row's canonical
\* personeelnummer equals the canonical query; a query that is only a part
\* of the identifier, or differs from it in case, shows nothing of it.
C10_ExactMatch ==
    (spc = "rendered" /\ df # None) =>
        \A r \in 1..Len(df_raw.v.rows) :
            LET pn == clean_id_cell(df_raw.v.rows[r][PnColumn])
                qn == clean_query(PyStr(q_raw))
            IN  /\ Shown(r) <=> pn = qn
                /\ (Contains(qn, pn) /\ Len(qn) < Len(pn)) => ~Shown(r)
                /\ (lower(qn) = lower(pn) /\ qn # pn) => ~Shown(r)

\* the query 6310 on a sheet with the cells 'BUS-6310' and 6310.0: only the
\* second row is shown
C10_Witness ==
    /\ spc = "rendered"
    /\ q_raw = <<"6", "3", "1", "0">>
    /\ df_raw = SearchSheet(<< <<PyStr(<<"B", "U", "S", "-", "6", "3", "1", "0">>), PyInt(5)>>, <<PyFloat(6310), PyInt(5)>> >>)
    /\ ~Shown(1)
    /\ Shown(2)
    /\ Len(results) = 1

---------------------------------------------------------------------------
(* The load of the three days *)

\* dt + timedelta(days=n), for n = 1 and n = -1
AddDays(dt, n) ==
    LET y == dt.v[1]
        m == dt.v[2]
        d == dt.v[3]
    IN  IF n = 1
        THEN IF d < DaysInMonth(y, m) THEN Date(y, m, d + 1)
             ELSE IF m < 12 THEN Date(y, m + 1, 1)
             ELSE Date(y + 1, 1, 1)
        ELSE IF d > 1 THEN Date(y, m, d - 1)
             ELSE IF m > 1 THEN Date(y, m - 1, DaysInMonth(y, m - 1))
             ELSE Date(y - 1, 12, 31)

\* targets of load_excels_via_ftp_three_days, in the order of the dict
targets_of(day) ==
    << <<"Gisteren", AddDays(day, -1)>>,
       <<"Vandaag", day>>,
       <<"Morgen", AddDays(day, 1)>> >>

\* the payload of a label
Payload(filename, file_date, frame) ==
    [filename |-> filename, file_date |-> file_date, df |-> frame]

\* what a file of the server holds: a sheet 'Dienstlijst', or none
NoDienstlijst == [type |-> "Workbook", v |-> <<>>]

FileContents ==
    { SearchSheet(<< <<PyFloat(6310), PyInt(7)>> >>), SheetWithoutWissel, NoDienstlijst }

---------------------------------------------------------------------------
(* Inputs of the load: the day and the listing of the server *)

MaxListed == 2

ListedPool ==
    { <<"2", "0", "2", "6", "0", "2", "1", "4", "_", "a", ".", "x", "l", "s", "x">>, <<"2", "0", "2", "6", "0", "2", "1", "4", "_", "b", ".", "x", "l", "s", "x">>, <<"2", "0", "2", "6", "0", "2", "1", "5", "_", "c", ".", "x", "l", "s", "x">>,
      <<"2", "0", "2", "6", "0", "2", "1", "4", "_", "z", ".", "c", "s", "v">>, <<"2", "0", "2", "6", "0", "2", "2", "8", "_", "a", ".", "x", "l", "s", "x">> }

LoadDays == {Date(2026, 2, 14), Date(2026, 2, 15), Date(2026, 2, 16), Date(2026, 3, 1)}

LoadInit ==
    /\ today \in LoadDays
    /\ listing \in SeqsUpTo(ListedPool, MaxListed)
    /\ lpc = "connect"
    /\ idx = 1
    /\ out = <<>>
    /\ raising = None
    /\ ftp_log = <<>>
    /\ files = <<>>
    /\ target = None
    /\ chosen = None
    /\ cpc = "idle"
    /\ df_raw = None
    /\ df = None
    /\ q_raw = <<>>
    /\ q_norm = <<>>
    /\ results = <<>>
    /\ message = "none"
    /\ spc = "idle"
    /\ NormIdle
    /\ DateIdle
    /\ FindIdle
    /\ MainIdle

\* a call on the connection that succeeds, and the place to go on from
FtpCall(at, call, next) ==
    /\ lpc = at
    /\ ftp_log' = Append(ftp_log, <<call, "ok">>)
    /\ lpc' = next

\* a call on the connection that raises: the finally block is next
FtpCallRaises(at, call) ==
    /\ lpc = at
    /\ ftp_log' = Append(ftp_log, <<call, "raised">>)
    /\ raising' = Raised("error")
    /\ lpc' = "finally"

Connect ==
    /\ FtpCall("connect", "connect", "login")
    /\ UNCHANGED <<today, listing, idx, out, raising, files, target, chosen, df_raw, df, mainVars, notLoad>>

ConnectRaises ==
    /\ FtpCallRaises("connect", "connect")
    /\ UNCHANGED <<today, listing, idx, out, files, target, chosen, df_raw, df, mainVars, notLoad>>

Login ==
    /\ FtpCall("login", "login", "cwd")
    /\ UNCHANGED <<today, listing, idx, out, raising, files, target, chosen, df_raw, df, mainVars, notLoad>>

LoginRaises ==
    /\ FtpCallRaises("login", "login")
    /\ UNCHANGED <<today, listing, idx, out, files, target, chosen, df_raw, df, mainVars, notLoad>>

Cwd ==
    /\ FtpCall("cwd", "cwd", "nlst")
    /\ UNCHANGED <<today, listing, idx, out, raising, files, target, chosen, df_raw, df, mainVars, notLoad>>

CwdRaises ==
    /\ FtpCallRaises("cwd", "cwd")
    /\ UNCHANGED <<today, listing, idx, out, files, target, chosen, df_raw, df, mainVars, notLoad>>

\* files = ftp.nlst()
Nlst ==
    /\ FtpCall("nlst", "nlst", "choose")
    /\ files' = listing
    /\ UNCHANGED <<today, listing, idx, out, raising, target, chosen, df_raw, df, mainVars, notLoad>>

NlstRaises ==
    /\ FtpCallRaises("nlst", "nlst")
    /\ UNCHANGED <<today, listing, idx, out, files, target, chosen, df_raw, df, mainVars, notLoad>>

\* the place after the label idx: the next label, or the return
AfterLabel == IF idx < Len(targets_of(today)) THEN "choose" ELSE "finally"

\* the loop: chosen = choose_file_for_date(files, d)
Choose ==
    /\ lpc = "choose"
    /\ target' = targets_of(today)[idx][2]
    /\ chosen' = choose_file_for_date(files, targets_of(today)[idx][2])
    /\ lpc' = "chosen"
    /\ UNCHANGED <<today, listing, idx, out, raising, ftp_log, files, df_raw, df, mainVars, notLoad>>

\* A plausible slip: break instead of continue, the loop ends at the first
\* label without a file.
NoFileBreaks ==
    /\ lpc = "chosen"
    /\ chosen = None
    /\ out' = DictSet(out, targets_of(today)[idx][1], Payload(None, target, None))
    /\ lpc' = "finally"
    /\ idx' = idx + 1
    /\ UNCHANGED <<today, listing, raising, ftp_log, files, target, chosen, df_raw, df, mainVars, notLoad>>

\* if not chosen: the payload without a frame, and the next label
NoFile ==
    /\ lpc = "chosen"
    /\ chosen = None
    /\ out' = DictSet(out, targets_of(today)[idx][1], Payload(None, target, None))
    /\ lpc' = AfterLabel
    /\ idx' = idx + 1
    /\ UNCHANGED <<today, listing, raising, ftp_log, files, target, chosen, df_raw, df, mainVars, notLoad>>

\* _load_one_excel_from_ftp: ftp.retrbinary
Retr ==
    /\ chosen # None
    /\ FtpCall("chosen", "retrbinary", "read_excel")
    /\ UNCHANGED <<today, listing, idx, out, raising, files, target, chosen, df_raw, df, mainVars, notLoad>>

RetrRaises ==
    /\ chosen # None
    /\ FtpCallRaises("chosen", "retrbinary")
    /\ UNCHANGED <<today, listing, idx, out, files, target, chosen, df_raw, df, mainVars, notLoad>>

\* _load_one_excel_from_ftp: pd.read_excel(bio, sheet_name="Dienstlijst")
ReadExcel ==
    /\ lpc = "read_excel"
    /\ \E content \in FileContents \ {NoDienstlijst} : df_raw' = content
    /\ lpc' = "prepare"
    /\ UNCHANGED <<today, listing, idx, out, raising, ftp_log, files, target, chosen, df, mainVars, notLoad>>

\* the ValueError of read_excel, raised again as a RuntimeError
ReadExcelNoSheet ==
    /\ lpc = "read_excel"
    /\ NoDienstlijst \in FileContents
    /\ raising' = RaisedWith("RuntimeError", <<chosen.v>>)
    /\ lpc' = "finally"
    /\ UNCHANGED <<today, listing, idx, out, ftp_log, files, target, chosen, df_raw, df, mainVars, notLoad>>

\* df = _prepare_df(df_raw), and the payload of the label
PrepareLabel ==
    /\ lpc = "prepare"
    /\ LET frame == _prepare_df(df_raw)
       IN  /\ frame.type = "DataFrame"
           /\ df' = frame
           /\ out' = DictSet(out, targets_of(today)[idx][1],
                             Payload(chosen, extract_yyyymmdd(chosen.v), frame))
    /\ lpc' = AfterLabel
    /\ idx' = idx + 1
    /\ UNCHANGED <<today, listing, raising, ftp_log, files, target, chosen, df_raw, mainVars, notLoad>>

PrepareRaises ==
    /\ lpc = "prepare"
    /\ LET frame == _prepare_df(df_raw)
       IN  /\ frame.type = "RuntimeError"
           /\ raising' = frame
    /\ lpc' = "finally"
    /\ UNCHANGED <<today, listing, idx, out, ftp_log, files, target, chosen, df_raw, df, mainVars, notLoad>>

\* finally: ftp.quit()
Quit ==
    /\ FtpCall("finally", "quit", "leave")
    /\ UNCHANGED <<today, listing, idx, out, raising, files, target, chosen, df_raw, df, mainVars, notLoad>>

\* A plausible slip: the exception of ftp.quit() is passed over, without the
\* inner ftp.close().
QuitRaisesAndLeaves ==
    /\ lpc = "finally"
    /\ ftp_log' = Append(ftp_log, <<"quit", "raised">>)
    /\ lpc' = "leave"
    /\ UNCHANGED <<today, listing, idx, out, raising, files, target, chosen, df_raw, df, mainVars, notLoad>>

\* ftp.quit() raises: the exception is caught, ftp.close() is next
QuitRaises ==
    /\ lpc = "finally"
    /\ ftp_log' = Append(ftp_log, <<"quit", "raised">>)
    /\ lpc' = "close"
    /\ UNCHANGED <<today, listing, idx, out, raising, files, target, chosen, df_raw, df, mainVars, notLoad>>

\* ftp.close()
Close ==
    /\ FtpCall("close", "close", "leave")
    /\ UNCHANGED <<today, listing, idx, out, raising, files, target, chosen, df_raw, df, mainVars, notLoad>>

\* ftp.close() raises: except Exception: pass
CloseRaises ==
    /\ lpc = "close"
    /\ ftp_log' = Append(ftp_log, <<"close", "raised">>)
    /\ lpc' = "leave"
    /\ UNCHANGED <<today, listing, idx, out, raising, files, target, chosen, df_raw, df, mainVars, notLoad>>

\* return out
Return ==
    /\ lpc = "leave"
    /\ raising = None
    /\ lpc' = "returned"
    /\ UNCHANGED <<today, listing, idx, out, raising, ftp_log, files, target, chosen, df_raw, df, mainVars, notLoad>>

\* the exception leaves the function
Propagate ==
    /\ lpc = "leave"
    /\ raising # None
    /\ lpc' = "raised"
    /\ UNCHANGED <<today, listing, idx, out, raising, ftp_log, files, target, chosen, df_raw, df, mainVars, notLoad>>

LoadNext ==
    \/ Connect
    \/ ConnectRaises
    \/ Login
    \/ LoginRaises
    \/ Cwd
    \/ CwdRaises
    \/ Nlst
    \/ NlstRaises
    \/ Choose
    \/ NoFile
    \/ Retr
    \/ RetrRaises
    \/ ReadExcel
    \/ ReadExcelNoSheet
    \/ PrepareLabel
    \/ PrepareRaises
    \/ Quit
    \/ QuitRaises
    \/ Close
    \/ CloseRaises
    \/ Return
    \/ Propagate

SpecLoad == LoadInit /\ [][LoadNext]_vars
---------------------------------------------------------------------------
(* Claims about the file of today *)

\* out[label]
OutOf(label) == out[CHOOSE i \in 1..Len(out) : out[i][1] = label][2]

\* the names of the listing that have the extension and a date
CandidateSet(fs) ==
    {fs[i] : i \in {k \in 1..Len(fs) :
                      HasExcelExtension(fs[k]) /\ extract_yyyymmdd(fs[k]) # None}}

\* the candidates that are not after the day
UpTo(fs, day) == {f \in CandidateSet(fs) : DateLE(extract_yyyymmdd(f), day)}

\* f has the latest date of the candidates up to the day, and is the last
\* in code-point order of those with that date
IsMostRecentUpTo(f, fs, day) ==
    /\ f \in UpTo(fs, day)
    /\ \A g \in UpTo(fs, day) :
          /\ DateLE(extract_yyyymmdd(g), extract_yyyymmdd(f))
          /\ extract_yyyymmdd(g) = extract_yyyymmdd(f) => (g = f \/ LexLess(g, f))

NoneOfToday == \A f \in CandidateSet(files) : extract_yyyymmdd(f) # today

---------------------------------------------------------------------------
(* Claims about a day without a file *)

\* the labels of the dict, in the order of their insertion
Labels(d) == [i \in 1..Len(d) |-> d[i][1]]

\* the day of the label being processed has no file of its date
LabelWithoutFile == lpc = "chosen" /\ chosen = None

\* C11: a day without a matching file is an absent result, never a thrown
\* fault. When choose_file_for_date returns None for a label, no exception is
\* raised, the label gets the payload with filename None, df None and
\* file_date its target date, and the loop goes on with the next label; the
\* returned dict has exactly the labels Gisteren, Vandaag and Morgen, each
\* label without an eligible file with the absent payload, each other label
\* with its file.
C11_AbsentIsAResult ==
    /\ [][LabelWithoutFile =>
            /\ raising' = None
            /\ out' = DictSet(out, targets_of(today)[idx][1],
                              Payload(None, targets_of(today)[idx][2], None))
            /\ idx' = idx + 1
            /\ lpc' = IF idx < 3 THEN "choose" ELSE "finally"]_vars
    /\ [](lpc = "returned" =>
            /\ Labels(out) = <<"Gisteren", "Vandaag", "Morgen">>
            /\ \A i \in 1..3 :
                  LET d == targets_of(today)[i][2]
                  IN  IF Eligible(files, d) = {}
                      THEN out[i][2] = Payload(None, d, None)
                      ELSE /\ out[i][2].filename # None
                           /\ out[i][2].filename.v \in Eligible(files, d)
                           /\ out[i][2].df.type = "DataFrame")

\* the load has returned: Gisteren has no file, and Vandaag, processed after
\* it, has the file of its date
C11_Witness ==
    /\ lpc = "returned"
    /\ today = Date(2026, 2, 14)
    /\ OutOf("Gisteren") = Payload(None, Date(2026, 2, 13), None)
    /\ OutOf("Vandaag").filename = PyStr(<<"2", "0", "2", "6", "0", "2", "1", "4", "_", "a", ".", "x", "l", "s", "x">>)
    /\ OutOf("Morgen").filename = None

---------------------------------------------------------------------------
(* The two normalizers on the same raw value *)

\* whole numbers a cell may hold
IdNumbers == {0, 1, 10, 631}

\* raw values: the strings, the nulls, and numbers as int and as float
SameValues ==
    RawValues \cup {PyInt(n) : n \in IdNumbers} \cup {PyFloat(n) : n \in IdNumbers}

\* the other cell of the column, if there is one
Companions ==
    {NaN, PyInt(1), PyFloat(10), PyStr(<<"1">>), PyStr(<<" ", "1", "0", ".", "0">>),
     PyStr(<<"n", "a", "n">>)}

SameInit ==
    /\ raw \in SameValues
    /\ series \in {<<raw>>} \cup {<<raw, c>> : c \in Companions}
    /\ via = "none"
    /\ norm1 = <<>>
    /\ norm2 = <<>>
    /\ npc = "input"
    /\ DateIdle
    /\ ChooseIdle
    /\ FindIdle
    /\ SheetIdle
    /\ LoadIdle
    /\ MainIdle

\* _prepare_df: df[col] = clean_id_series(df[col]); norm1 is the cell of raw
CellSide ==
    /\ npc \in {"input", "query"}
    /\ norm1' = clean_id_series(series)[1]
    /\ npc' = IF npc = "input" THEN "cell" ELSE "both"
    /\ via' = IF npc = "input" THEN "clean_id_series" ELSE via
    /\ UNCHANGED <<raw, series, norm2, notNorm>>

\* main: q_norm = clean_query(q), for the same raw value; norm2 is q_norm
QuerySide ==
    /\ npc \in {"input", "cell"}
    /\ norm2' = clean_query(raw)
    /\ npc' = IF npc = "input" THEN "query" ELSE "both"
    /\ via' = IF npc = "input" THEN "clean_query" ELSE via
    /\ UNCHANGED <<raw, series, norm1, notNorm>>

SameNext ==
    \/ CellSide
    \/ QuerySide

SpecSame == SameInit /\ [][SameNext]_vars

\* C12: stored identifiers and queries go through the same transform. For
\* every raw value, clean_id_series on a cell that holds it gives the string
\* clean_query gives for it, whatever else the column holds; and two cells
\* of a column are equal after clean_id_series exactly when their raw values
\* are equal after clean_query.
C12_SameTransform ==
    npc = "both" =>
        /\ norm1 = norm2
        /\ Len(series) = 2 =>
              (clean_id_series(series)[1] = clean_id_series(series)[2]
                  <=> clean_query(series[1]) = clean_query(series[2]))

\* the whole number 631 in a column with a missing cell, held as 631.0:
\* both sides give '631'
C12_Witness ==
    /\ npc = "both"
    /\ raw = PyInt(631)
    /\ series = <<PyInt(631), NaN>>
    /\ norm1 = <<"6", "3", "1">>
    /\ norm2 = <<"6", "3", "1">>

---------------------------------------------------------------------------
(* Claims about the release of the connection *)

\* the function has been left, by return or by an exception
Left == lpc \in {"returned", "raised"}

\* ftp.quit() was called, and ftp.close() right after it if it raised
Released ==
    \E i \in 1..Len(ftp_log) :
        /\ ftp_log[i][1] = "quit"
        /\ ftp_log[i][2] = "raised" =>
              i < Len(ftp_log) /\ ftp_log[i + 1][1] = "close"

\* the finally block is being executed
InFinally == lpc \in {"finally", "close", "leave"}

\* C13: on every path of load_excels_via_ftp_three_days (return, a failure
\* of connect, login, cwd or nlst, of the download, a missing sheet, missing
\* columns) the function is not left before ftp.quit() was attempted, and
\* ftp.close() after a failed quit; the steps of the finally block leave the
\* result and the pending exception as they were, so the function returns
\* exactly when no exception was pending.
C13_ReleasedBeforeLeaving ==
    /\ [](Left => Released)
    /\ [][InFinally => (raising' = raising /\ out' = out)]_vars
    /\ [](lpc = "returned" => raising = None)
    /\ [](lpc = "raised" => raising # None)

\* a sheet without a column: the RuntimeError leaves the function after
\* quit and close both raised
C13_Witness ==
    /\ lpc = "raised"
    /\ raising.type = "RuntimeError"
    /\ Len(raising.v) = 1
    /\ Len(ftp_log) >= 2
    /\ ftp_log[Len(ftp_log) - 1] = <<"quit", "raised">>
    /\ ftp_log[Len(ftp_log)] = <<"close", "raised">>

---------------------------------------------------------------------------
(* A run of main: the clock, the cache of the load, and what is rendered *)

\* @st.cache_data(ttl=300): the seconds an entry of the cache is served
ttl == 300

\* an entry of the cache: the result of the load and the time it was stored
CacheEntry(at, value) == [type |-> "CacheEntry", v |-> <<at, value>>]

\* the entry of the cache is served: there is one, not older than ttl
CacheServes == cache # None /\ now.t - cache.v[1] < ttl

---------------------------------------------------------------------------
(* Inputs of a run: the listing of the server, the button, the day chosen,
   and the time that passes *)

\* the seconds the clock is followed
MaxTime == 400

MainListings ==
    { <<>>,
      <<<<"2", "0", "2", "6", "0", "2", "1", "4", "_", "a", ".", "x", "l", "s", "x">>, <<"2", "0", "2", "6", "0", "2", "1", "5", "_", "c", ".", "x", "l", "s", "x">>>>,
      <<<<"2", "0", "2", "6", "0", "2", "1", "5", "_", "c", ".", "x", "l", "s", "x">>, <<"2", "0", "2", "6", "0", "2", "1", "4", "_", "z", ".", "c", "s", "v">>>> }

DayOptions == {"Vandaag", "Gisteren", "Morgen", "Alles"}

MainInit ==
    /\ now = [date |-> Date(2026, 2, 14), t |-> 0]
    /\ cache = None
    /\ mpc = "idle"
    /\ refresh = FALSE
    /\ data = <<>>
    /\ dates_shown = [on |-> None, dates |-> {}]
    /\ listing \in MainListings
    /\ today = None
    /\ lpc = "idle"
    /\ idx = 0
    /\ out = <<>>
    /\ raising = None
    /\ ftp_log = <<>>
    /\ files = <<>>
    /\ target = None
    /\ chosen = None
    /\ cpc = "idle"
    /\ df_raw = None
    /\ df = None
    /\ q_raw = <<>>
    /\ q_norm = <<>>
    /\ results = <<>>
    /\ message = "none"
    /\ spc = "idle"
    /\ NormIdle
    /\ DateIdle
    /\ FindIdle

\* time passes between two runs, within the day (a run is short against
\* the steps of the clock)
Tick ==
    /\ mpc = "idle"
    /\ \E dt \in {100, 200} :
          /\ now.t + dt <= MaxTime
          /\ now' = [now EXCEPT !.t = now.t + dt]
    /\ UNCHANGED <<cache, mpc, refresh, data, dates_shown, loadVars, files, target, chosen, df_raw, df, notMain>>

\* time passes between two runs, and midnight with it: belgium_today() is
\* the next day
Midnight ==
    /\ mpc = "idle"
    /\ now.date = Date(2026, 2, 14)
    /\ now.t + 100 <= MaxTime
    /\ now' = [date |-> AddDays(now.date, 1), t |-> now.t + 100]
    /\ UNCHANGED <<cache, mpc, refresh, data, dates_shown, loadVars, files, target, chosen, df_raw, df, notMain>>

\* main, up to the load: the button, and st.cache_data.clear() if pressed
RunStart ==
    /\ mpc = "idle"
    /\ \E pressed \in BOOLEAN :
          /\ refresh' = pressed
          /\ cache' = IF pressed THEN None ELSE cache
    /\ mpc' = "load"
    /\ UNCHANGED <<now, data, dates_shown, loadVars, files, target, chosen, df_raw, df, notMain>>

\* data = load_excels_via_ftp_three_days(), served from the cache
CacheHit ==
    /\ mpc = "load"
    /\ CacheServes
    /\ data' = cache.v[2]
    /\ mpc' = "loaded"
    /\ UNCHANGED <<now, cache, refresh, dates_shown, loadVars, files, target, chosen, df_raw, df, notMain>>

\* no entry to serve: the function is called; today = belgium_today()
CacheMiss ==
    /\ mpc = "load"
    /\ ~CacheServes
    /\ today' = now.date
    /\ lpc' = "connect"
    /\ idx' = 1
    /\ out' = <<>>
    /\ raising' = None
    /\ ftp_log' = <<>>
    /\ files' = <<>>
    /\ target' = None
    /\ chosen' = None
    /\ df_raw' = None
    /\ df' = None
    /\ mpc' = "loading"
    /\ UNCHANGED <<now, cache, refresh, data, dates_shown, listing, notMain>>

\* the function has returned: its result is stored in the cache
LoadReturns ==
    /\ mpc = "loading"
    /\ lpc = "returned"
    /\ cache' = CacheEntry(now.t, out)
    /\ data' = out
    /\ lpc' = "idle"
    /\ mpc' = "loaded"
    /\ UNCHANGED <<now, refresh, dates_shown, today, listing, idx, out, raising, ftp_log,
                   files, target, chosen, df_raw, df, notMain>>

\* the function has raised: except Exception, st.error; nothing is stored
LoadRaises ==
    /\ mpc = "loading"
    /\ lpc = "raised"
    /\ lpc' = "idle"
    /\ mpc' = "idle"
    /\ UNCHANGED <<now, cache, refresh, data, dates_shown, today, listing, idx, out, raising,
                   ftp_log, files, target, chosen, df_raw, df, notMain>>

\* if not q.strip(): st.stop()
RunStops ==
    /\ mpc = "loaded"
    /\ mpc' = "idle"
    /\ UNCHANGED <<now, cache, refresh, data, dates_shown, loadVars, files, target, chosen, df_raw, df, notMain>>

\* render_section for the day chosen, or for the three of them: the date
\* of the payload is shown under the label
RenderDays ==
    /\ mpc = "loaded"
    /\ \E day \in DayOptions :
          LET labels == IF day = "Alles" THEN {"Gisteren", "Vandaag", "Morgen"} ELSE {day}
          IN  dates_shown' =
                [on |-> now.date,
                 dates |-> {<<data[i][1], data[i][2].file_date>> :
                              i \in {k \in 1..Len(data) : data[k][1] \in labels}}]
    /\ mpc' = "idle"
    /\ UNCHANGED <<now, cache, refresh, data, loadVars, files, target, chosen, df_raw, df, notMain>>

MainNext ==
    \/ Tick
    \/ Midnight
    \/ RunStart
    \/ CacheHit
    \/ CacheMiss
    \/ LoadNext
    \/ LoadReturns
    \/ LoadRaises
    \/ RunStops
    \/ RenderDays

SpecMain == MainInit /\ [][MainNext]_vars

---------------------------------------------------------------------------
(* Claims about the dates that are rendered *)

\* the day a label stands for, on the day it is rendered
DayOf(label, day) ==
    CASE label = "Gisteren" -> AddDays(day, -1)
      [] label = "Vandaag" -> day
      [] label = "Morgen" -> AddDays(day, 1)

\* C14: in every run of main the payload rendered under Vandaag has the
\* date of the day of rendering as its file_date, and those under Gisteren
\* and Morgen the day before and the day after, also when the result of the
\* load comes from the cache; and when the button is pressed the cache is
\* empty at the load of that run.
C14_RenderedDatesAreCurrent ==
    /\ \A shown \in dates_shown.dates : shown[2] = DayOf(shown[1], dates_shown.on)
    /\ (mpc = "load" /\ refresh) => cache = None
=============================================================================
